---- MODULE Spec2Model ----
(* Live-session controller of the trading dashboard.                        *)
(*   Spec    : the namespaced TradingApp controller (src/unnamed/part_000)   *)
(*   SpecApp : the global-scope controller (src/static/js/app.js)            *)
(* Both controllers own the same fields (currentEngine, eventSource, the    *)
(* interval handles); the environment state (which streams the browser has  *)
(* open, which timers are armed, which requests are in flight) is explicit.  *)
EXTENDS Integers, Sequences, FiniteSets, TLC

VARIABLES
    currentEngine,          \* "null" | "futures" | "options"
    eventSource,            \* 0 (null) or the id of the EventSource object held
    signalUpdateInterval,   \* 0 (null) or the id returned by setInterval
    statsPollingInterval,   \* 0 (null) or the id returned by setInterval
    open,                   \* ids of the EventSource objects that are not CLOSED
    signalTimers,           \* ids of the armed 2-second intervals
    statsTimers,            \* ids of the armed 5-second intervals
    reconnectTimers,        \* pending setTimeout callbacks, in firing order
    pending,                \* command requests in flight: command -> count
    notified,               \* severities passed to showNotification by the last callback
    handlersCalled,         \* dispatch handlers entered by the last callback
    fetched,                \* query endpoints requested by the last callback
    streamsOpened,          \* number of `new EventSource` made by the last callback
    lastOp,                 \* the callback that ran last and its input
    race,                   \* monitor: a start call directly followed by a stop call
    queries,                \* TRUE while a stats/trades/signal request is in flight
    buttons                 \* visibility of startFuturesBtn, startOptionsBtn and stopBtn

vars == <<currentEngine, eventSource, signalUpdateInterval, statsPollingInterval,
          open, signalTimers, statsTimers, reconnectTimers, pending, notified,
          handlersCalled, fetched, streamsOpened, lastOp, race, queries,
          buttons>>

\* ---------------------------------------------------------------- bounds
MaxPending    == 2      \* command requests in flight at once
MaxReconnects == 1      \* reconnect timeouts pending at once
MaxStreams    == 2      \* EventSource objects open at once (app.js leaks them)
MaxTimers     == 2      \* intervals of one kind armed at once (app.js leaks them)

\* ---------------------------------------------------------------- constants
ReconnectDelayMs == 5000

\* ---------------------------------------------------------------- inputs
Commands == {"futures", "options", "stop"}
Engines  == {"futures", "options"}

\* "other" stands for every body whose status is neither 'success' nor 'error',
\* a missing status included: both controllers compare with === only.
Statuses == {"notjson", "success", "error", "other"}
NoResponse == [fault |-> FALSE, httpOk |-> FALSE, status |-> "none"]
\* The body of a response that is not OK is never read by TradingApp, and
\* app.js never reads the HTTP status: one body suffices for those responses.
Responses ==
    {[fault |-> TRUE, httpOk |-> FALSE, status |-> "none"]} \cup
    {[fault |-> FALSE, httpOk |-> FALSE, status |-> "success"]} \cup
    {[fault |-> FALSE, httpOk |-> TRUE, status |-> b] : b \in Statuses}

\* The element the page lacks when a command handler runs, if any: a use of
\* the null that getElementById returns for it throws a TypeError.
DomFaults == {"none", "startFuturesBtn", "startOptionsBtn", "stopBtn", "engineType"}

\* The three buttons as the page markup leaves them, before any updateButtons.
Markup == [futuresBtn |-> "markup", optionsBtn |-> "markup", stopBtn |-> "markup"]

MsgTypes == {"market_data", "trade", "position_update", "exit", "heartbeat", "notype"}
Payloads == {"bad", "profit", "loss"}
NoMessage == [json |-> "none", type |-> "notype", payload |-> "bad"]
\* The payload is read by the handlers only, and only handleTradeExit tells a
\* loss from a profit.
Messages ==
    {[json |-> j, type |-> "notype", payload |-> "bad"] : j \in {"invalid", "null"}} \cup
    {[json |-> "object", type |-> t, payload |-> p] :
        t \in {"market_data", "trade", "position_update", "exit"},
        p \in {"bad", "profit"}} \cup
    {[json |-> "object", type |-> "exit", payload |-> "loss"]} \cup
    {[json |-> "object", type |-> "heartbeat", payload |-> "profit"]}

Idle == [op |-> "init", cmd |-> "none", resp |-> NoResponse,
         msg |-> NoMessage, stale |-> FALSE, threw |-> FALSE]

\* The callback that ran last was onmessage and one of its handlers threw.
HandlerThrew == lastOp.op = "message" /\ lastOp.msg.json = "object" /\ lastOp.threw

\* No stream is held or open and no interval is armed.
NothingLive ==
    /\ eventSource = 0 /\ open = {}
    /\ statsPollingInterval = 0 /\ statsTimers = {}
    /\ signalUpdateInterval = 0 /\ signalTimers = {}

\* ---------------------------------------------------------------- helpers
BagSize(b) == b["futures"] + b["options"] + b["stop"]

\* A handle the browser has not given out among `used`: the smallest free id.
NewId(used) ==
    CHOOSE i \in 1..(Cardinality(used) + 1) :
        i \notin used /\ \A j \in 1..(i - 1) : j \in used

\* The controller's fields and the effects of one callback, as one record.
Pack == [currentEngine |-> currentEngine, eventSource |-> eventSource,
         signalUpdateInterval |-> signalUpdateInterval,
         statsPollingInterval |-> statsPollingInterval,
         open |-> open, signalTimers |-> signalTimers, statsTimers |-> statsTimers,
         reconnectTimers |-> reconnectTimers, buttons |-> buttons,
         notified |-> <<>>, handlersCalled |-> <<>>, fetched |-> <<>>,
         streamsOpened |-> 0]

Commit(st) ==
    /\ currentEngine' = st.currentEngine
    /\ eventSource' = st.eventSource
    /\ signalUpdateInterval' = st.signalUpdateInterval
    /\ statsPollingInterval' = st.statsPollingInterval
    /\ open' = st.open
    /\ signalTimers' = st.signalTimers
    /\ statsTimers' = st.statsTimers
    /\ reconnectTimers' = st.reconnectTimers
    /\ buttons' = st.buttons
    /\ notified' = st.notified
    /\ handlersCalled' = st.handlersCalled
    /\ fetched' = st.fetched
    /\ streamsOpened' = st.streamsOpened

\* The query requests a callback has issued join those in flight.
Sent(st) ==
    queries' = (queries \/ st.fetched # <<>>)

Returned(st) == [st |-> st, threw |-> FALSE]
Thrown(st)   == [st |-> st, threw |-> TRUE]

\* ================================================================ TradingApp
showNotification(st, type) == [st EXCEPT !.notified = Append(@, type)]

\* Variant without the check of data.status.
fetchWithErrorHandling_noStatusCheck(resp) ==
    IF resp.fault THEN FALSE
    ELSE IF ~resp.httpOk THEN FALSE
    ELSE IF resp.status = "notjson" THEN FALSE
    ELSE TRUE

\* TRUE when the promise resolves with the body, FALSE when it rejects.
fetchWithErrorHandling(resp) ==
    IF resp.fault THEN FALSE
    ELSE IF ~resp.httpOk THEN FALSE
    ELSE IF resp.status = "notjson" THEN FALSE
    ELSE IF resp.status = "error" THEN FALSE
    ELSE TRUE

loadStats(st)  == [st EXCEPT !.fetched = Append(@, "stats")]
loadTrades(st) == [st EXCEPT !.fetched = Append(@, "trades")]

loadSignalDetails(st) ==
    IF st.currentEngine = "null" THEN st
    ELSE [st EXCEPT !.fetched = Append(@, "signal-details")]

stopStatsPolling(st) ==
    IF st.statsPollingInterval # 0
    THEN [st EXCEPT !.statsTimers = @ \ {st.statsPollingInterval},
                    !.statsPollingInterval = 0]
    ELSE st

startStatsPolling(st) ==
    LET s1 == stopStatsPolling(st)
        id == NewId(s1.statsTimers)
    IN [s1 EXCEPT !.statsTimers = @ \cup {id}, !.statsPollingInterval = id]

stopSignalPolling(st) ==
    IF st.signalUpdateInterval # 0
    THEN [st EXCEPT !.signalTimers = @ \ {st.signalUpdateInterval},
                    !.signalUpdateInterval = 0]
    ELSE st

startSignalPolling(st) ==
    LET s1 == stopSignalPolling(st)
        id == NewId(s1.signalTimers)
    IN [s1 EXCEPT !.signalTimers = @ \cup {id}, !.signalUpdateInterval = id]

\* eventSource.close(): closing a stream that is already CLOSED does nothing.
closeStream(st) == [st EXCEPT !.open = @ \ {st.eventSource}]

connectSSE(st) ==
    LET s1 == IF st.eventSource # 0 THEN closeStream(st) ELSE st
        id == NewId(s1.open \cup {s1.eventSource})
        s2 == [s1 EXCEPT !.eventSource = id, !.open = @ \cup {id},
                         !.streamsOpened = @ + 1]
        s3 == loadSignalDetails(loadTrades(loadStats(s2)))
    IN startStatsPolling(startSignalPolling(s3))

\* Variant left over from the single-engine page: startOptionsBtn is not touched.
updateButtons_singleEngine(st, dom) ==
    LET start == IF st.currentEngine # "null" THEN "hidden" ELSE "shown"
        stop  == IF st.currentEngine # "null" THEN "shown" ELSE "hidden"
    IN IF dom = "startFuturesBtn" THEN Thrown(st)
       ELSE LET s1 == [st EXCEPT !.buttons.futuresBtn = start] IN
            IF dom = "stopBtn" THEN Thrown(s1)
            ELSE Returned([s1 EXCEPT !.buttons.stopBtn = stop])

\* The buttons are toggled one after the other: a missing one throws after
\* those before it have been toggled.
updateButtons(st, dom) ==
    LET start == IF st.currentEngine # "null" THEN "hidden" ELSE "shown"
        stop  == IF st.currentEngine # "null" THEN "shown" ELSE "hidden"
    IN IF dom = "startFuturesBtn" THEN Thrown(st)
       ELSE LET s1 == [st EXCEPT !.buttons.futuresBtn = start] IN
            IF dom = "startOptionsBtn" THEN Thrown(s1)
            ELSE LET s2 == [s1 EXCEPT !.buttons.optionsBtn = start] IN
                 IF dom = "stopBtn" THEN Thrown(s2)
                 ELSE Returned([s2 EXCEPT !.buttons.stopBtn = stop])

\* Writes to the engineType element only.
updateEngineStatus(st, dom) ==
    IF dom = "engineType" THEN Thrown(st) ELSE Returned(st)

\* The .then callback of a start command.
startThen(st, kind, dom) ==
    LET s0 == [st EXCEPT !.currentEngine = kind]
        b  == updateButtons(s0, dom)
        s1 == b.st IN
    IF b.threw THEN b
    ELSE IF updateEngineStatus(s1, dom).threw THEN Thrown(s1)
    ELSE Returned(showNotification(connectSSE(s1), "success"))

\* The .then callback of the stop command.
stopThen(st, dom) ==
    LET s0 == [st EXCEPT !.currentEngine = "null"]
        b  == updateButtons(s0, dom)
        s1 == b.st IN
    IF b.threw THEN b
    ELSE IF updateEngineStatus(s1, dom).threw THEN Thrown(s1)
    ELSE LET s2 == IF s1.eventSource # 0
                   THEN [closeStream(s1) EXCEPT !.eventSource = 0]
                   ELSE s1
             s3 == stopStatsPolling(stopSignalPolling(s2))
         IN Returned(showNotification(s3, "info"))

\* The whole promise chain of a command: fetchWithErrorHandling, .then, .catch.
commandChain(st, cmd, resp, dom) ==
    LET r == IF ~fetchWithErrorHandling(resp) THEN Thrown(st)
             ELSE IF cmd = "stop" THEN stopThen(st, dom)
             ELSE startThen(st, cmd, dom)
    IN IF r.threw THEN showNotification(r.st, "error") ELSE r.st

Call(cmd) ==
    /\ BagSize(pending) < MaxPending
    /\ pending' = [pending EXCEPT ![cmd] = @ + 1]
    /\ race' = IF cmd = "stop"
               THEN (IF race = "start" THEN "pair" ELSE "none")
               ELSE (IF BagSize(pending) = 0 THEN "start" ELSE "none")
    /\ lastOp' = [Idle EXCEPT !.op = "call", !.cmd = cmd]
    /\ Commit(Pack) /\ Sent(Pack)

startFuturesTrading == Call("futures")
startOptionsTrading == Call("options")
stopTrading         == Call("stop")

\* Monitor: every pending reconnect timeout now has a successful stop behind it.
MarkStale(st) ==
    [st EXCEPT !.reconnectTimers = [i \in DOMAIN @ |-> [@[i] EXCEPT !.stale = TRUE]]]

Response(cmd, resp, dom) ==
    /\ pending[cmd] > 0
    /\ LET ok == fetchWithErrorHandling(resp)
           d  == dom
           st == commandChain(Pack, cmd, resp, d)
       IN /\ (~ok => dom = "none")     \* the renderer is not reached
          /\ Commit(IF ok /\ cmd = "stop" THEN MarkStale(st) ELSE st) /\ Sent(st)
          /\ lastOp' = [Idle EXCEPT !.op = "response", !.cmd = cmd, !.resp = resp,
                                    !.threw = (d # "none")]
          /\ race' = IF race = "pair" /\ ok /\ d = "none" THEN "pair" ELSE "none"
    /\ pending' = [pending EXCEPT ![cmd] = @ - 1]

startFuturesResponse == \E resp \in Responses, dom \in DomFaults : Response("futures", resp, dom)
startOptionsResponse == \E resp \in Responses, dom \in DomFaults : Response("options", resp, dom)
stopResponse         == \E resp \in Responses, dom \in DomFaults : Response("stop", resp, dom)

\* JSON.parse(event.data) followed by the read of data.type:
\* "throw" when either raises, else the type tag read.
JSONparse(msg) ==
    IF msg.json = "invalid" THEN "throw"
    ELSE IF msg.json = "null" THEN "throw"
    ELSE msg.type

updateLiveData(st, payload) ==
    LET s1 == [st EXCEPT !.handlersCalled = Append(@, "updateLiveData")] IN
    IF payload = "bad" THEN Thrown(s1) ELSE Returned(s1)

handleNewTrade(st, payload) ==
    LET s1 == loadTrades(loadStats(
                  [st EXCEPT !.handlersCalled = Append(@, "handleNewTrade")])) IN
    IF payload = "bad" THEN Thrown(s1) ELSE Returned(showNotification(s1, "success"))

updatePosition(st, payload) ==
    LET s1 == [st EXCEPT !.handlersCalled = Append(@, "updatePosition")] IN
    IF payload = "bad" THEN Thrown(s1) ELSE Returned(s1)

\* Variant that takes an exit message as the end of the session.
handleTradeExit_resetsEngine(st, payload) ==
    LET s1 == loadTrades(loadStats(
                  [st EXCEPT !.handlersCalled = Append(@, "handleTradeExit"),
                             !.currentEngine = "null"])) IN
    IF payload = "bad" THEN Thrown(s1)
    ELSE Returned(showNotification(s1, IF payload = "profit" THEN "success" ELSE "info"))

handleTradeExit(st, payload) ==
    LET s1 == loadTrades(loadStats(
                  [st EXCEPT !.handlersCalled = Append(@, "handleTradeExit")])) IN
    IF payload = "bad" THEN Thrown(s1)
    ELSE Returned(showNotification(s1, IF payload = "profit" THEN "success" ELSE "info"))

\* Variant without the 'exit' branch.
dispatch_noExit(st, msg) ==
    LET t == JSONparse(msg) IN
    IF t = "throw" THEN Thrown(st)
    ELSE IF t = "market_data" THEN updateLiveData(st, msg.payload)
    ELSE IF t = "trade" THEN handleNewTrade(st, msg.payload)
    ELSE IF t = "position_update" THEN updatePosition(st, msg.payload)
    ELSE Returned(st)

\* Variant whose catch treats a parse failure as a broken stream and closes it.
dispatch_closeOnThrow(st, msg) ==
    LET t == JSONparse(msg) IN
    IF t = "throw" THEN Thrown([closeStream(st) EXCEPT !.eventSource = 0])
    ELSE IF t = "market_data" THEN updateLiveData(st, msg.payload)
    ELSE IF t = "trade" THEN handleNewTrade(st, msg.payload)
    ELSE IF t = "position_update" THEN updatePosition(st, msg.payload)
    ELSE IF t = "exit" THEN handleTradeExit(st, msg.payload)
    ELSE Returned(st)

\* Variant whose catch gives the stream up when a handler throws.
dispatch_closeOnHandlerThrow(st, msg) ==
    LET t == JSONparse(msg)
        r == IF t = "throw" THEN Thrown(st)
             ELSE IF t = "market_data" THEN updateLiveData(st, msg.payload)
             ELSE IF t = "trade" THEN handleNewTrade(st, msg.payload)
             ELSE IF t = "position_update" THEN updatePosition(st, msg.payload)
             ELSE IF t = "exit" THEN handleTradeExit(st, msg.payload)
             ELSE Returned(st)
    IN IF r.threw /\ t # "throw"
       THEN Thrown([closeStream(r.st) EXCEPT !.eventSource = 0])
       ELSE r

\* The try block of eventSource.onmessage; a throw lands in its catch (log only).
dispatch(st, msg) ==
    LET t == JSONparse(msg) IN
    IF t = "throw" THEN Thrown(st)
    ELSE IF t = "market_data" THEN updateLiveData(st, msg.payload)
    ELSE IF t = "trade" THEN handleNewTrade(st, msg.payload)
    ELSE IF t = "position_update" THEN updatePosition(st, msg.payload)
    ELSE IF t = "exit" THEN handleTradeExit(st, msg.payload)
    ELSE Returned(st)

Deliver(msgs) ==
    \E s \in open, msg \in msgs :
        LET r == dispatch(Pack, msg) IN
        /\ Commit(r.st) /\ Sent(r.st)
        /\ lastOp' = [Idle EXCEPT !.op = "message", !.msg = msg, !.threw = r.threw]
        /\ race' = "none"
        /\ UNCHANGED pending

onmessage == Deliver(Messages)

\* The browser's part of an error event: after a fatal error the stream is
\* CLOSED, otherwise the browser keeps the object alive and retries.
browserError(st, s, fatal) == IF fatal THEN [st EXCEPT !.open = @ \ {s}] ELSE st

\* Variant that also stops the polling when the stream fails.
onerrorBody_stopsPolling(st, s, fatal) ==
    LET s0 == browserError(st, s, fatal) IN
    IF s0.currentEngine # "null" /\ s0.eventSource # 0
    THEN [stopStatsPolling(stopSignalPolling(closeStream(s0))) EXCEPT
              !.eventSource = 0,
              !.reconnectTimers = Append(@, [delay |-> ReconnectDelayMs, stale |-> FALSE])]
    ELSE s0

\* Variant without the currentEngine guard: the timeout is armed on every error.
onerrorBody_unguarded(st, s, fatal) ==
    LET s0 == browserError(st, s, fatal) IN
    [closeStream(s0) EXCEPT
         !.eventSource = 0,
         !.reconnectTimers = Append(@, [delay |-> ReconnectDelayMs, stale |-> FALSE])]

\* The body of eventSource.onerror, for an error event of stream s.
onerrorBody(st, s, fatal) ==
    LET s0 == browserError(st, s, fatal) IN
    IF s0.currentEngine # "null" /\ s0.eventSource # 0
    THEN [closeStream(s0) EXCEPT
              !.eventSource = 0,
              !.reconnectTimers = Append(@, [delay |-> ReconnectDelayMs, stale |-> FALSE])]
    ELSE s0

onerror ==
    \E s \in open, fatal \in BOOLEAN :
        LET st == onerrorBody(Pack, s, fatal) IN
        /\ Len(st.reconnectTimers) <= MaxReconnects
        /\ Commit(st) /\ Sent(st)
        /\ lastOp' = [Idle EXCEPT !.op = "error"]
        /\ UNCHANGED <<pending, race>>

\* Variant that only logs when the timeout fires.
reconnectBody_logOnly(st) == st

\* The setTimeout callback armed by onerror.
reconnectBody(st) == IF st.currentEngine # "null" THEN connectSSE(st) ELSE st

reconnectFire ==
    /\ reconnectTimers # <<>>
    /\ lastOp' = [Idle EXCEPT !.op = "reconnect", !.stale = Head(reconnectTimers).stale]
    /\ UNCHANGED <<pending, race>>
    /\ LET st == reconnectBody([Pack EXCEPT !.reconnectTimers = Tail(@)]) IN
       /\ Commit(st) /\ Sent(st)

\* The callback of the 5-second interval.
statsTickBody(st) ==
    IF st.currentEngine # "null" THEN loadTrades(loadStats(st)) ELSE st

statsTick ==
    /\ statsTimers # {}
    /\ Commit(statsTickBody(Pack)) /\ Sent(statsTickBody(Pack))
    /\ lastOp' = [Idle EXCEPT !.op = "statsTick"]
    /\ UNCHANGED <<pending, race>>

\* The callback of the 2-second interval is loadSignalDetails itself.
signalTick ==
    /\ signalTimers # {}
    /\ Commit(loadSignalDetails(Pack)) /\ Sent(loadSignalDetails(Pack))
    /\ lastOp' = [Idle EXCEPT !.op = "signalTick"]
    /\ UNCHANGED <<pending, race>>

\* The .then/.catch of loadStats, loadTrades and loadSignalDetails: they write
\* to the page only. The response may or may not be the last one awaited.
queryResponse ==
    /\ queries
    /\ queries' \in BOOLEAN
    /\ notified' = <<>> /\ handlersCalled' = <<>> /\ fetched' = <<>>
    /\ streamsOpened' = 0
    /\ lastOp' = [Idle EXCEPT !.op = "queryResponse"]
    /\ UNCHANGED <<currentEngine, eventSource, signalUpdateInterval,
                   statsPollingInterval, open, signalTimers, statsTimers,
                   reconnectTimers, pending, race, buttons>>

\* ================================================================ app.js
\* The monitors race and queries and the stale mark of the timeouts
\* serve properties of TradingApp; the actions of app.js leave them alone.
App_showNotification(st, type) == [st EXCEPT !.notified = Append(@, type)]

App_loadStats(st)  == [st EXCEPT !.fetched = Append(@, "stats")]
App_loadTrades(st) == [st EXCEPT !.fetched = Append(@, "trades")]

\* Variant without the currentEngine guard.
App_loadSignalDetails_unguarded(st) ==
    [st EXCEPT !.fetched = Append(@, "signal-details")]

App_loadSignalDetails(st) ==
    IF st.currentEngine = "null" THEN st
    ELSE [st EXCEPT !.fetched = Append(@, "signal-details")]

\* No close of the previous stream and no clearInterval of the previous interval.
App_connectSSE(st) ==
    LET id == NewId(st.open \cup {st.eventSource})
        s1 == [st EXCEPT !.eventSource = id, !.open = @ \cup {id},
                         !.streamsOpened = @ + 1]
        s2 == App_loadSignalDetails(App_loadTrades(App_loadStats(s1)))
        t  == NewId(s2.signalTimers)
    IN [s2 EXCEPT !.signalTimers = @ \cup {t}, !.signalUpdateInterval = t]

App_updateButtons(st, dom) ==
    LET start == IF st.currentEngine # "null" THEN "hidden" ELSE "shown"
        stop  == IF st.currentEngine # "null" THEN "shown" ELSE "hidden"
    IN IF dom = "startFuturesBtn" THEN Thrown(st)
       ELSE LET s1 == [st EXCEPT !.buttons.futuresBtn = start] IN
            IF dom = "startOptionsBtn" THEN Thrown(s1)
            ELSE LET s2 == [s1 EXCEPT !.buttons.optionsBtn = start] IN
                 IF dom = "stopBtn" THEN Thrown(s2)
                 ELSE Returned([s2 EXCEPT !.buttons.stopBtn = stop])

App_updateEngineStatus(st, dom) ==
    IF dom = "engineType" THEN Thrown(st) ELSE Returned(st)

\* The second .then callback of a start command (data is the parsed body).
App_startThen(st, kind, status, dom) ==
    IF status = "success"
    THEN LET s0 == [st EXCEPT !.currentEngine = kind]
             b  == App_updateButtons(s0, dom)
             s1 == b.st IN
         IF b.threw THEN b
         ELSE IF App_updateEngineStatus(s1, dom).threw THEN Thrown(s1)
         ELSE Returned(App_showNotification(App_connectSSE(s1), "success"))
    ELSE Returned(st)

\* The second .then callback of the stop command.
App_stopThen(st, status, dom) ==
    IF status = "success"
    THEN LET s0 == [st EXCEPT !.currentEngine = "null"]
             b  == App_updateButtons(s0, dom)
             s1 == b.st IN
         IF b.threw THEN b
         ELSE IF App_updateEngineStatus(s1, dom).threw THEN Thrown(s1)
         ELSE LET s2 == IF s1.eventSource # 0
                        THEN [s1 EXCEPT !.open = @ \ {s1.eventSource}, !.eventSource = 0]
                        ELSE s1
                  s3 == IF s2.signalUpdateInterval # 0
                        THEN [s2 EXCEPT !.signalTimers = @ \ {s2.signalUpdateInterval},
                                        !.signalUpdateInterval = 0]
                        ELSE s2
              IN Returned(App_showNotification(s3, "info"))
    ELSE Returned(st)

\* fetch(...).then(res => res.json()): TRUE when a parsed body reaches the next
\* .then; the HTTP status is not looked at.
App_fetchJson(resp) ==
    IF resp.fault THEN FALSE
    ELSE IF resp.status = "notjson" THEN FALSE
    ELSE TRUE

\* The promise chain of a start command: fetch, res.json(), .then, .catch.
App_startChain(st, kind, resp, dom) ==
    LET r == IF ~App_fetchJson(resp) THEN Thrown(st)
             ELSE App_startThen(st, kind, resp.status, dom)
    IN IF r.threw THEN App_showNotification(r.st, "error") ELSE r.st

\* The promise chain of the stop command: fetch, res.json(), .then; no .catch.
App_stopChain(st, resp, dom) ==
    LET r == IF ~App_fetchJson(resp) THEN Thrown(st)
             ELSE App_stopThen(st, resp.status, dom)
    IN r.st

\* Handles are opaque: the ids of the live objects are kept in creation order
\* and renumbered from 1, so that two states that differ only in the numbers
\* the browser gave out are one state.
App_renumber(st) ==
    LET ids == st.open \cup (IF st.eventSource = 0 THEN {} ELSE {st.eventSource})
        rank(i) == Cardinality({j \in ids : j <= i})
        trank(i) == Cardinality({j \in st.signalTimers : j <= i})
    IN [st EXCEPT !.open = {rank(k) : k \in st.open},
                  !.eventSource = IF @ = 0 THEN 0 ELSE rank(@),
                  !.signalTimers = {trank(k) : k \in st.signalTimers},
                  !.signalUpdateInterval = IF @ = 0 THEN 0 ELSE trank(@)]

App_Call(cmd) ==
    /\ BagSize(pending) < MaxPending
    /\ pending' = [pending EXCEPT ![cmd] = @ + 1]
    /\ lastOp' = [Idle EXCEPT !.op = "call", !.cmd = cmd]
    /\ Commit(Pack)
    /\ UNCHANGED <<race, queries>>

App_startFuturesTrading == App_Call("futures")
App_startOptionsTrading == App_Call("options")
App_stopTrading         == App_Call("stop")

App_Response(cmd, resp, dom) ==
    /\ pending[cmd] > 0
    /\ LET ok == App_fetchJson(resp) /\ resp.status = "success"
           d  == dom
           st == IF cmd = "stop" THEN App_stopChain(Pack, resp, d)
                 ELSE App_startChain(Pack, cmd, resp, d)
       IN /\ (~ok => dom = "none")     \* the renderer is not reached
          /\ Cardinality(st.open) <= MaxStreams
          /\ Cardinality(st.signalTimers) <= MaxTimers
          /\ Commit(App_renumber(st))
          /\ lastOp' = [Idle EXCEPT !.op = "response", !.cmd = cmd, !.resp = resp,
                                    !.threw = (d # "none")]
          /\ UNCHANGED <<race, queries>>
    /\ pending' = [pending EXCEPT ![cmd] = @ - 1]

App_startFuturesResponse ==
    \E resp \in Responses, dom \in DomFaults : App_Response("futures", resp, dom)
App_startOptionsResponse ==
    \E resp \in Responses, dom \in DomFaults : App_Response("options", resp, dom)
App_stopResponse ==
    \E resp \in Responses, dom \in DomFaults : App_Response("stop", resp, dom)

App_updateLiveData(st, payload) ==
    LET s1 == [st EXCEPT !.handlersCalled = Append(@, "updateLiveData")] IN
    IF payload = "bad" THEN Thrown(s1) ELSE Returned(s1)

App_handleNewTrade(st, payload) ==
    LET s1 == App_loadTrades(App_loadStats(
                  [st EXCEPT !.handlersCalled = Append(@, "handleNewTrade")])) IN
    IF payload = "bad" THEN Thrown(s1) ELSE Returned(App_showNotification(s1, "success"))

App_updatePosition(st, payload) ==
    LET s1 == [st EXCEPT !.handlersCalled = Append(@, "updatePosition")] IN
    IF payload = "bad" THEN Thrown(s1) ELSE Returned(s1)

\* The body of eventSource.onmessage: no try/catch, no 'exit' branch.
App_dispatch(st, msg) ==
    LET t == JSONparse(msg) IN
    IF t = "throw" THEN Thrown(st)
    ELSE IF t = "market_data" THEN App_updateLiveData(st, msg.payload)
    ELSE IF t = "trade" THEN App_handleNewTrade(st, msg.payload)
    ELSE IF t = "position_update" THEN App_updatePosition(st, msg.payload)
    ELSE Returned(st)

App_onmessage ==
    \E s \in open, msg \in Messages :
        LET r == App_dispatch(Pack, msg) IN
        /\ Commit(App_renumber(r.st))
        /\ lastOp' = [Idle EXCEPT !.op = "message", !.threw = r.threw]
        /\ UNCHANGED <<pending, race, queries>>

\* The body of eventSource.onerror: the timeout is armed whatever the state,
\* and the stream is not closed by the handler.
App_onerrorBody(st, s, fatal) ==
    [browserError(st, s, fatal) EXCEPT
         !.reconnectTimers = Append(@, [delay |-> ReconnectDelayMs, stale |-> FALSE])]

App_onerror ==
    \E s \in open, fatal \in BOOLEAN :
        LET st == App_onerrorBody(Pack, s, fatal) IN
        /\ Len(st.reconnectTimers) <= MaxReconnects
        /\ Commit(App_renumber(st))
        /\ lastOp' = [Idle EXCEPT !.op = "error"]
        /\ UNCHANGED <<pending, race, queries>>

App_reconnectBody(st) == IF st.currentEngine # "null" THEN App_connectSSE(st) ELSE st

App_reconnectFire ==
    /\ reconnectTimers # <<>>
    /\ LET st == App_reconnectBody([Pack EXCEPT !.reconnectTimers = Tail(@)]) IN
       /\ Cardinality(st.open) <= MaxStreams
       /\ Cardinality(st.signalTimers) <= MaxTimers
       /\ Commit(App_renumber(st))
    /\ lastOp' = [Idle EXCEPT !.op = "reconnect"]
    /\ UNCHANGED <<pending, race, queries>>

\* The callback of the page-level 5-second interval.
App_statsTickBody(st) ==
    IF st.currentEngine # "null" THEN App_loadTrades(App_loadStats(st)) ELSE st

App_statsTick ==
    /\ statsTimers # {}
    /\ Commit(App_statsTickBody(Pack))
    /\ lastOp' = [Idle EXCEPT !.op = "statsTick"]
    /\ UNCHANGED <<pending, race, queries>>

App_signalTick ==
    /\ signalTimers # {}
    /\ Commit(App_loadSignalDetails(Pack))
    /\ lastOp' = [Idle EXCEPT !.op = "signalTick"]
    /\ UNCHANGED <<pending, race, queries>>

\* ================================================================ specifications
Init ==
    /\ currentEngine = "null"
    /\ eventSource = 0
    /\ signalUpdateInterval = 0
    /\ statsPollingInterval = 0
    /\ open = {}
    /\ signalTimers = {}
    /\ statsTimers = {}
    /\ reconnectTimers = <<>>
    /\ pending = [c \in Commands |-> 0]
    /\ notified = <<>>
    /\ handlersCalled = <<>>
    /\ fetched = <<>>
    /\ streamsOpened = 0
    /\ lastOp = Idle
    /\ race = "none"
    /\ queries = FALSE
    /\ buttons = Markup

Next ==
    \/ startFuturesTrading
    \/ startOptionsTrading
    \/ stopTrading
    \/ startFuturesResponse
    \/ startOptionsResponse
    \/ stopResponse
    \/ onmessage
    \/ onerror
    \/ reconnectFire
    \/ statsTick
    \/ signalTick
    \/ queryResponse

Spec == Init /\ [][Next]_vars

\* The controller on a page where every element the renderer looks up exists.
QuietNext ==
    \/ startFuturesTrading
    \/ startOptionsTrading
    \/ stopTrading
    \/ \E resp \in Responses : Response("futures", resp, "none")
    \/ \E resp \in Responses : Response("options", resp, "none")
    \/ \E resp \in Responses : Response("stop", resp, "none")
    \/ onmessage
    \/ onerror
    \/ reconnectFire
    \/ statsTick
    \/ signalTick
    \/ queryResponse

SpecQuiet == Init /\ [][QuietNext]_vars

\* The step in which the oldest reconnect timeout fires: reconnectFire is the
\* only action that removes a timeout, and it is enabled whenever one is
\* pending.
TimeoutElapses == reconnectTimers # <<>> /\ reconnectTimers' = Tail(reconnectTimers)

\* A timeout armed with setTimeout fires once its delay has elapsed.
SpecLive == Init /\ [][Next]_vars /\ WF_reconnectTimers(TimeoutElapses)

\* app.js arms its stats interval when the script is loaded.
App_Init ==
    /\ currentEngine = "null"
    /\ eventSource = 0
    /\ signalUpdateInterval = 0
    /\ statsPollingInterval = 0
    /\ open = {}
    /\ signalTimers = {}
    /\ statsTimers = {1}
    /\ reconnectTimers = <<>>
    /\ pending = [c \in Commands |-> 0]
    /\ notified = <<>>
    /\ handlersCalled = <<>>
    /\ fetched = <<>>
    /\ streamsOpened = 0
    /\ lastOp = Idle
    /\ race = "none"
    /\ queries = FALSE
    /\ buttons = Markup

App_Next ==
    \/ App_startFuturesTrading
    \/ App_startOptionsTrading
    \/ App_stopTrading
    \/ App_startFuturesResponse
    \/ App_startOptionsResponse
    \/ App_stopResponse
    \/ App_onmessage
    \/ App_onerror
    \/ App_reconnectFire
    \/ App_statsTick
    \/ App_signalTick

SpecApp == App_Init /\ [][App_Next]_vars

TypeOK ==
    /\ currentEngine \in {"null"} \cup Engines
    /\ eventSource \in Nat /\ signalUpdateInterval \in Nat /\ statsPollingInterval \in Nat
    /\ Len(reconnectTimers) <= MaxReconnects
    /\ BagSize(pending) <= MaxPending

\* ================================================================ properties
\* The command API reported success: HTTP OK and status "success" in the body.
Succeeded(resp) == ~resp.fault /\ resp.httpOk /\ resp.status = "success"

\* The command failed: transport fault, HTTP non-OK, or status "error" in the body.
Failed(resp) == resp.fault \/ ~resp.httpOk \/ resp.status = "error"

StopSucceeded  == lastOp.op = "response" /\ lastOp.cmd = "stop" /\ Succeeded(lastOp.resp)
StartCompleted == lastOp.op = "response" /\ lastOp.cmd \in Engines
StartFailed    == StartCompleted /\ Failed(lastOp.resp)

\* C1: at most one stream is open, at most one stats interval and at most one
\* signal interval are armed, and right after a successful stop response has
\* been handled no stream is open and no interval is armed.
C1_AtMostOneAndStopLeavesNone ==
    /\ Cardinality(open) <= 1
    /\ Cardinality(statsTimers) <= 1
    /\ Cardinality(signalTimers) <= 1
    /\ StopSucceeded => open = {} /\ statsTimers = {} /\ signalTimers = {}

\* C2: currentEngine == null implies that the stream handle and both interval
\* handles are null and that no stream opened by the controller is still open.
C2_StoppedImpliesReleased ==
    currentEngine = "null" =>
        /\ eventSource = 0
        /\ statsPollingInterval = 0
        /\ signalUpdateInterval = 0
        /\ open = {}

\* C3: a start command that fails (transport fault, HTTP non-OK, error status)
\* leaves currentEngine unchanged, opens no stream and arms no interval.
C3_FailedStartChangesNothing ==
    [][StartFailed' =>
          /\ currentEngine' = currentEngine
          /\ streamsOpened' = 0
          /\ open' = open /\ eventSource' = eventSource
          /\ statsTimers' = statsTimers /\ statsPollingInterval' = statsPollingInterval
          /\ signalTimers' = signalTimers /\ signalUpdateInterval' = signalUpdateInterval
      ]_vars

\* A failed options start while the futures engine runs with its stream open.
C3_Witness ==
    /\ StartFailed /\ lastOp.cmd = "options" /\ lastOp.resp.status = "error"
    /\ lastOp.resp.httpOk
    /\ currentEngine = "futures" /\ eventSource \in open
    /\ notified = <<"error">>

\* C4: a start call directly followed by a stop call, no stream message in
\* between: once both responses have been handled (in either order) the engine
\* is null, no stream is open and all handles are cleared.
C4_StartThenStopEndsStopped ==
    (race = "pair" /\ BagSize(pending) = 0 /\ lastOp.op = "response") =>
        /\ currentEngine = "null"
        /\ eventSource = 0 /\ open = {}
        /\ statsPollingInterval = 0 /\ signalUpdateInterval = 0

\* C5: an error on the open stream while currentEngine != null closes the
\* stream, clears the handle and arms exactly one reconnect timeout of 5000 ms;
\* an error while currentEngine == null arms none.
C5_ErrorArmsOneReconnect ==
    [][lastOp'.op = "error" =>
          IF currentEngine # "null"
          THEN /\ eventSource' = 0
               /\ open' = {}
               /\ reconnectTimers' =
                      Append(reconnectTimers, [delay |-> 5000, stale |-> FALSE])
          ELSE reconnectTimers' = reconnectTimers
      ]_vars

\* An error has just closed the stream of a running engine: one timeout pending.
C5_Witness ==
    /\ lastOp.op = "error"
    /\ currentEngine # "null"
    /\ eventSource = 0 /\ open = {}
    /\ Len(reconnectTimers) = 1

\* C6: a reconnect timeout that was pending when a stop succeeded opens no
\* stream when it fires, whatever happened after the stop.
C6_StaleReconnectOpensNothing ==
    (lastOp.op = "reconnect" /\ lastOp.stale) => streamsOpened = 0

\* C7: a message that is not valid JSON leaves currentEngine and the stream as
\* they are and enters no dispatch handler; a well-formed message that arrives
\* on a stream after such a message is still dispatched.
C7_MalformedMessageIsDropped ==
    [][/\ (lastOp'.op = "message" /\ lastOp'.msg.json = "invalid") =>
              /\ currentEngine' = currentEngine
              /\ eventSource' = eventSource /\ open' = open
              /\ handlersCalled' = <<>>
       /\ (lastOp.op = "message" /\ lastOp.msg.json = "invalid"
             /\ lastOp'.op = "message" /\ lastOp'.msg.json = "object"
             /\ lastOp'.msg.type = "trade") =>
              handlersCalled' = <<"handleNewTrade">>
      ]_vars

\* A malformed message has been dropped while an engine runs: the stream it
\* came on is still open and held, ready to dispatch the next message.
C7_Witness ==
    /\ lastOp.op = "message" /\ lastOp.msg.json = "invalid" /\ lastOp.threw
    /\ currentEngine # "null"
    /\ eventSource # 0 /\ eventSource \in open
    /\ handlersCalled = <<>>

\* C8 (app.js): every start command whose call completes emits exactly one
\* notification.
C8_StartEmitsOneNotification ==
    StartCompleted => Len(notified) = 1

\* C9: handling a successful stop response sets currentEngine to null, closes
\* the stream and clears its handle, cancels both intervals and clears their
\* handles, and emits exactly one notification, of severity info.
C9_StopSuccessEffects ==
    StopSucceeded =>
        /\ currentEngine = "null"
        /\ eventSource = 0 /\ open = {}
        /\ statsPollingInterval = 0 /\ statsTimers = {}
        /\ signalUpdateInterval = 0 /\ signalTimers = {}
        /\ notified = <<"info">>

\* C10: once the stop command reports success the stream is closed and both
\* intervals are cancelled even if updateButtons or updateEngineStatus throws.
C10_CleanupDespiteRendererThrow ==
    (StopSucceeded /\ lastOp.threw) =>
        open = {} /\ statsTimers = {} /\ signalTimers = {}


\* C11 (app.js): a stop command that fails (transport fault or a status other
\* than "success") leaves currentEngine, eventSource and signalUpdateInterval
\* unchanged and emits exactly one notification, of severity error.
C11_FailedStopNotifiesOnce ==
    [][(lastOp'.op = "response" /\ lastOp'.cmd = "stop"
          /\ (lastOp'.resp.fault \/ lastOp'.resp.status # "success")) =>
          /\ currentEngine' = currentEngine
          /\ eventSource' = eventSource
          /\ signalUpdateInterval' = signalUpdateInterval
          /\ notified' = <<"error">>
      ]_vars

\* C12: a start or stop response whose status is anything but "success" is a
\* failure: no state transition, no stream opened or closed, no interval armed
\* or cancelled.
C12_NonSuccessStatusIsFailure ==
    [][(lastOp'.op = "response" /\ ~lastOp'.resp.fault
          /\ lastOp'.resp.status # "success") =>
          /\ currentEngine' = currentEngine
          /\ eventSource' = eventSource /\ open' = open /\ streamsOpened' = 0
          /\ statsTimers' = statsTimers /\ statsPollingInterval' = statsPollingInterval
          /\ signalTimers' = signalTimers /\ signalUpdateInterval' = signalUpdateInterval
      ]_vars

\* C13 (app.js): at most one stream opened by the controller is open and at
\* most one signal interval is armed at any time.
C13_AppAtMostOneStreamAndInterval ==
    Cardinality(open) <= 1 /\ Cardinality(signalTimers) <= 1

\* The handler a type tag is routed to; <<>> for any other tag.
Route(t) ==
    IF t = "market_data" THEN <<"updateLiveData">>
    ELSE IF t = "trade" THEN <<"handleNewTrade">>
    ELSE IF t = "position_update" THEN <<"updatePosition">>
    ELSE IF t = "exit" THEN <<"handleTradeExit">>
    ELSE <<>>

\* C14: a well-formed message enters exactly the handler of its type tag; a
\* message of any other type enters no handler, raises no error and changes
\* no controller state.
C14_MessageRoutedByType ==
    [][(lastOp'.op = "message" /\ lastOp'.msg.json = "object") =>
          /\ handlersCalled' = Route(lastOp'.msg.type)
          /\ Route(lastOp'.msg.type) = <<>> =>
                /\ ~lastOp'.threw
                /\ notified' = <<>> /\ fetched' = <<>>
                /\ currentEngine' = currentEngine
                /\ eventSource' = eventSource /\ open' = open
                /\ statsTimers' = statsTimers /\ statsPollingInterval' = statsPollingInterval
                /\ signalTimers' = signalTimers /\ signalUpdateInterval' = signalUpdateInterval
                /\ reconnectTimers' = reconnectTimers
      ]_vars

\* An exit message with a losing trade has been routed to handleTradeExit.
C14_Witness ==
    /\ lastOp.op = "message" /\ lastOp.msg.json = "object"
    /\ lastOp.msg.type = "exit" /\ lastOp.msg.payload = "loss"
    /\ handlersCalled = <<"handleTradeExit">>
    /\ notified = <<"info">>

StartSucceeded == StartCompleted /\ Succeeded(lastOp.resp)

\* C15: handling a successful start response sets currentEngine to the kind
\* requested, leaves exactly the one newly opened stream open, requests stats,
\* trades and signal details once each, and leaves both intervals armed.
C15_StartSuccessEffects ==
    StartSucceeded =>
        /\ currentEngine = lastOp.cmd
        /\ streamsOpened = 1
        /\ eventSource # 0 /\ open = {eventSource}
        /\ fetched = <<"stats", "trades", "signal-details">>
        /\ statsPollingInterval # 0 /\ statsTimers = {statsPollingInterval}
        /\ signalUpdateInterval # 0 /\ signalTimers = {signalUpdateInterval}

\* C16: currentEngine changes only in the .then callback of a start or stop
\* command; messages, stream errors, reconnect timeouts, interval ticks, query
\* responses, calls and failed commands leave it as it is.
C16_EngineChangesOnlyOnCommandSuccess ==
    [][currentEngine' # currentEngine =>
          lastOp'.op = "response" /\ ~Failed(lastOp'.resp)
      ]_vars

\* An exit message has been handled while the options engine runs.
C16_Witness ==
    /\ lastOp.op = "message" /\ lastOp.msg.type = "exit"
    /\ handlersCalled = <<"handleTradeExit">>
    /\ currentEngine = "options"

\* C17 (app.js): no tick of the stats interval or of any signal interval
\* requests stats, trades or signal details while currentEngine == null.
C17_AppTickIdleWhenStopped ==
    (lastOp.op \in {"statsTick", "signalTick"} /\ currentEngine = "null") =>
        fetched = <<>>

\* A signal interval that outlived its session ticks after the stop.
C17_Witness ==
    /\ lastOp.op = "signalTick"
    /\ currentEngine = "null"
    /\ signalUpdateInterval = 0 /\ signalTimers # {}
    /\ fetched = <<>>

\* The oldest pending reconnect timeout was armed for a running engine and no
\* stop has succeeded since.
ReconnectDue ==
    /\ reconnectTimers # <<>>
    /\ ~Head(reconnectTimers).stale
    /\ currentEngine # "null"

\* That timeout has fired and opened a stream that eventSource now holds.
Reconnected ==
    /\ lastOp.op = "reconnect" /\ ~lastOp.stale
    /\ streamsOpened = 1
    /\ eventSource # 0 /\ eventSource \in open

\* A stop succeeded while the oldest timeout was still pending.
StoppedMeanwhile == reconnectTimers # <<>> /\ Head(reconnectTimers).stale

\* C18: after a stream error of a running engine, unless a stop succeeds
\* before the reconnect timeout fires, the timeout eventually opens a new
\* stream and eventSource is non-null again.
C18_ReconnectEventuallyReopens ==
    ReconnectDue ~> (Reconnected \/ StoppedMeanwhile)

\* The timeout of a running engine has fired and reopened the stream.
C18_Witness == Reconnected /\ currentEngine # "null"

\* C19: a successful stop handled while no stream and no interval is live
\* leaves currentEngine null and every handle null, which is the state a
\* single stop leaves, and raises no error: the one notification emitted is
\* the info one.
C19_StopWithNothingLive ==
    [][(StopSucceeded' /\ NothingLive) =>
          /\ currentEngine' = "null"
          /\ NothingLive'
          /\ Len(reconnectTimers') = Len(reconnectTimers)
          /\ notified' = <<"info">>
      ]_vars

\* C20 (renderer calls not throwing): while currentEngine != null both
\* intervals are armed and a stream is open or a reconnect timeout is pending;
\* a stream error cancels no interval.
C20_RunningImpliesLive ==
    /\ [](currentEngine # "null" =>
            /\ statsPollingInterval # 0 /\ statsPollingInterval \in statsTimers
            /\ signalUpdateInterval # 0 /\ signalUpdateInterval \in signalTimers
            /\ (eventSource # 0 /\ eventSource \in open) \/ reconnectTimers # <<>>)
    /\ [][lastOp'.op = "error" =>
            /\ statsTimers' = statsTimers
            /\ statsPollingInterval' = statsPollingInterval
            /\ signalTimers' = signalTimers
            /\ signalUpdateInterval' = signalUpdateInterval
         ]_vars

\* A stream error of a running engine: the stream is gone, the timeout is
\* pending and both intervals are still armed.
C20_Witness ==
    /\ lastOp.op = "error"
    /\ currentEngine # "null"
    /\ eventSource = 0 /\ open = {} /\ reconnectTimers # <<>>
    /\ statsTimers # {} /\ signalTimers # {}

\* C21: currentEngine never changes directly from 'futures' to 'options' or
\* from 'options' to 'futures': every change of engine kind passes through
\* currentEngine == null, whatever the interleaving of start calls and their
\* responses.
C21_EngineKindChangesThroughNull ==
    [][(currentEngine \in Engines /\ currentEngine' \in Engines) =>
          currentEngine' = currentEngine
      ]_vars

\* C22: an exception thrown by a dispatch handler while a stream message is
\* processed is caught inside onmessage: it closes no stream, changes neither
\* currentEngine nor the timers and surfaces no error, and the message that
\* follows is still dispatched to the handler of its type.
C22_HandlerThrowIsContained ==
    [][/\ HandlerThrew' =>
              /\ handlersCalled' = Route(lastOp'.msg.type)
              /\ currentEngine' = currentEngine
              /\ eventSource' = eventSource /\ open' = open
              /\ statsTimers' = statsTimers /\ statsPollingInterval' = statsPollingInterval
              /\ signalTimers' = signalTimers /\ signalUpdateInterval' = signalUpdateInterval
              /\ reconnectTimers' = reconnectTimers
              /\ notified' = <<>>
       /\ (HandlerThrew /\ lastOp'.op = "message" /\ lastOp'.msg.json = "object") =>
              handlersCalled' = Route(lastOp'.msg.type)
      ]_vars

\* updatePosition has thrown on a message of a running engine: the stream is
\* still open and held and both intervals are still armed.
C22_Witness ==
    /\ HandlerThrew
    /\ lastOp.msg.type = "position_update"
    /\ handlersCalled = <<"updatePosition">>
    /\ notified = <<>>
    /\ currentEngine # "null"
    /\ eventSource # 0 /\ open = {eventSource}
    /\ statsTimers # {} /\ signalTimers # {}

\* The stop button is visible and both start buttons are hidden.
StopButtonOnly ==
    /\ buttons.stopBtn = "shown"
    /\ buttons.futuresBtn = "hidden"
    /\ buttons.optionsBtn = "hidden"

\* C23: after a start or stop success handler has completed on a page where
\* the elements exist, the stop button is visible and both start buttons are
\* hidden if and only if currentEngine != null; a failed start or stop leaves
\* the visibility of the buttons unchanged.
C23_ButtonsFollowEngine ==
    /\ []((~lastOp.threw /\ (StartSucceeded \/ StopSucceeded)) =>
            (StopButtonOnly <=> currentEngine # "null"))
    /\ [][(lastOp'.op = "response" /\ Failed(lastOp'.resp)) => buttons' = buttons]_vars

\* The options engine has just been started: only the stop button is visible.
C23_Witness ==
    /\ StartSucceeded /\ ~lastOp.threw /\ lastOp.cmd = "options"
    /\ currentEngine = "options"
    /\ StopButtonOnly

====
